---- MODULE Spec2Model ----
(***************************************************************************)
(* PaperAgent (references/PASA/code/paper_agent.py): a concurrent,         *)
(* best-first literature-discovery agent.  run() performs one search phase *)
(* and expand_layers expansion rounds; every phase is a pool of threads    *)
(* joined by the coordinating thread.                                      *)
(*                                                                         *)
(* Modelling conventions                                                   *)
(*  - Text (model output, query strings, section names) is a sequence of   *)
(*    tokens; the markers "Search]", "Expand]" and "[" are single tokens   *)
(*    and " " is white space.                                              *)
(*  - The threads of one pool run the same function on the same arguments, *)
(*    so a pool is the multiset (bag) of its threads' local states.        *)
(*  - A `with lock:` block whose body only touches data guarded by that    *)
(*    lock is one atomic step taken when the lock is free.  The test-and-  *)
(*    set on touch_ids is two steps (membership test, then append and      *)
(*    release) and the lock is visibly held in between.                    *)
(*  - In get_paper_content, do_expand and search_ref the unlocked `while   *)
(*    items:` test and the locked re-test lead to the same continuation,   *)
(*    so they are one step; a thread at the top of such a loop whose list  *)
(*    is empty can only return and counts as terminated.                   *)
(*  - Relevance scores are tenths (5 stands for 0.5).                      *)
(*  - root.extra["crawler_recall_papers"] / ["recall_papers"] are kept as  *)
(*    bags: their order is not observed.                                   *)
(***************************************************************************)
EXTENDS Integers, Sequences, FiniteSets, Bags, TLC

(***************************************************************************)
(* Hyperparameters of the run (PaperAgent.__init__), at model size.        *)
(***************************************************************************)
search_queries == 2
expand_layers  == 3
expand_papers  == 1
threads_num    == 2

(* do_expand starts threads_num * 3 search_ref threads *)
ResolvePoolFactor == 3
(* `if score > 0.5`, in tenths *)
SelectThreshold == 5

(***************************************************************************)
(* Generic helpers                                                         *)
(***************************************************************************)
Range(s) == {s[i] : i \in DOMAIN s}
Min(S) == CHOOSE x \in S : \A y \in S : x <= y
Take(s, n) == SubSeq(s, 1, IF n < Len(s) THEN n ELSE Len(s))
Copies(e, n) == IF n > 0 THEN [x \in {e} |-> n] ELSE EmptyBag
Replace(B, old, new) == (B (-) SetToBag({old})) (+) SetToBag({new})
SetKey(f, k, v) == [x \in (DOMAIN f) \cup {k} |-> IF x = k THEN v ELSE f[x]]
EmptyDict == [k \in {} |-> <<>>]

(***************************************************************************)
(* CommandParser: re.findall(r"Marker\](.*?)\[", text, flags=re.DOTALL)    *)
(* followed by .strip() on every payload.                                  *)
(***************************************************************************)
(* variant: a greedy pattern, the payload runs to the last `[` of the text *)
FindAllGreedy(text, marker) ==
    LET starts == {i \in 1..Len(text) :
                      /\ text[i] = marker
                      /\ \E j \in (i+1)..Len(text) : text[j] = "["}
    IN  IF starts = {} THEN <<>>
        ELSE LET i == Min(starts)
                 j == CHOOSE k \in (i+1)..Len(text) :
                         /\ text[k] = "["
                         /\ \A m \in (k+1)..Len(text) : text[m] # "["
             IN  <<SubSeq(text, i+1, j-1)>>

RECURSIVE FindAll(_, _)
FindAll(text, marker) ==
    LET starts == {i \in 1..Len(text) :
                      /\ text[i] = marker
                      /\ \E j \in (i+1)..Len(text) : text[j] = "["}
    IN  IF starts = {} THEN <<>>
        ELSE LET i == Min(starts)
                 j == Min({k \in (i+1)..Len(text) : text[k] = "["})
             IN  <<SubSeq(text, i+1, j-1)>>
                     \o FindAll(SubSeq(text, j+1, Len(text)), marker)

Strip(s) ==
    LET keep == {i \in 1..Len(s) : s[i] # " "}
    IN  IF keep = {} THEN <<>>
        ELSE SubSeq(s, Min(keep), CHOOSE m \in keep : \A k \in keep : k <= m)

StripAll(ss) == [i \in 1..Len(ss) |-> Strip(ss[i])]

(***************************************************************************)
(* The outside world: model client, search service, paper repository.      *)
(***************************************************************************)
Q1 == <<"q1">>
Q2 == <<"q2">>
S1 == <<"s1">>

(* crawler.infer(prompt): the planner's possible answers *)
PlannerTexts ==
    { <<>>,
      <<"no", "directive">>,
      <<"Search]", "q1">>,
      <<"Search]", " ", "q1", " ", "[", "and", "Search]", "q2", "[">>,
      <<"Search]", "q1", "[", "Search]", " ", "q1", "[">> }

(* arxiv_id.split('v')[0] *)
SplitV(id) == IF id = "c_v2" THEN "c" ELSE id

(* sections: "" (not fetched), None, or a dict section -> citation strings *)
EmptyStr == [kind |-> "str",  dict |-> EmptyDict]
NoneSec  == [kind |-> "none", dict |-> EmptyDict]
DictSec(d) == [kind |-> "dict", dict |-> d]
(* variant: `if paper.sections is None`, an empty skeleton passes *)
FalsyNoneOnly(sec) == sec.kind # "dict"

(* `not paper.sections` *)
Falsy(sec) == sec.kind # "dict" \/ DOMAIN sec.dict = {}

(* the section -> cited titles skeleton ar5iv holds for a paper *)
Skeleton(id) ==
    CASE id = "a" -> [k \in {S1} |-> <<"Tc", "Td">>]
      [] id = "b" -> [k \in {S1} |-> <<"Tc">>]
      [] id = "c" -> [k \in {S1} |-> <<"Ta">>]
      [] id = "d" -> [k \in {S1} |-> <<"Te">>]
      [] id = "e" -> [k \in {S1} |-> <<"Tb">>]
      [] OTHER    -> EmptyDict

(* ids whose paper is in the local paper database (sections populated) *)
LocalDb == {"b"}
TitleOf(id) ==
    CASE id = "a" -> "Ta" [] id = "b" -> "Tb" [] id = "c" -> "Tc"
      [] id = "d" -> "Td" [] OTHER -> "Te"

NoPaper == [arxiv_id |-> "None", title |-> "", sections |-> NoneSec, source |-> ""]

(* search_paper_by_arxiv_id(arxiv_id): a paper dict or None *)
MetaResults(id) ==
    IF id \in LocalDb
    THEN {[arxiv_id |-> id, title |-> TitleOf(id),
           sections |-> DictSec(Skeleton(id)), source |-> "local_paper_db"]}
    ELSE {NoPaper,
          [arxiv_id |-> id, title |-> TitleOf(id),
           sections |-> EmptyStr, source |-> "arxiv"]}

(* google_search_arxiv_id(query, num, end_date): list(set(ids)), [] on failure *)
RawResults(q) ==
    IF q = Q1 THEN {<<>>, <<"a", "b">>} ELSE {<<>>, <<"a">>}

(* GOOGLE_KEY as shipped, and a key of the search service *)
PlaceholderKey == "your google keys"
GoogleKeys == {PlaceholderKey, "key"}

(* for _ in range(3) *)
MaxAttempts == 3

(* results['organic'] of a response: links, each a path kind and a paper id *)
OrganicLists ==
    { <<>>,
      <<<<"abs", "a">>, <<"other", "x">>, <<"pdf", "a">>>>,
      <<<<"html", "b">>, <<"abs", "a">>>> }

(* what one request gives: status 0 stands for an exception raised by       *)
(* requests.request; parses tells whether json.loads and results['organic'] *)
(* go through                                                               *)
Responses ==
    {[status |-> 0,   parses |-> FALSE, organic |-> <<>>],
     [status |-> 500, parses |-> FALSE, organic |-> <<>>],
     [status |-> 200, parses |-> FALSE, organic |-> <<>>]}
      \cup {[status |-> 200, parses |-> TRUE, organic |-> o] : o \in OrganicLists}

(* the ids of the links that match arxiv\.org/(?:abs|pdf|html)/(\d{4}\.\d+) *)
ArxivIdList(organic) ==
    LET hits == SelectSeq(organic, LAMBDA link : link[1] \in {"abs", "pdf", "html"})
    IN  [i \in 1..Len(hits) |-> hits[i][2]]

(* list(set(arxiv_id_list)): every id once, in an order the build chooses *)
ListsOfSet(S) == {l \in [1..Cardinality(S) -> S] : Range(l) = S}

(* self.end_date is a text: year, month and day tokens when it is written  *)
(* as %Y%m%d; the empty text stands for None and ""                        *)
DefaultEndDate == <<"2024", "06", "30">>
EndDates ==
    { DefaultEndDate,
      <<>>,
      <<"2024", "-", "06", "-", "30">>,
      <<"2024", "13", "01">> }
Months == {"01", "02", "03", "04", "05", "06", "07", "08", "09", "10", "11", "12"}
Days ==
    {"01", "02", "03", "04", "05", "06", "07", "08", "09", "10",
     "11", "12", "13", "14", "15", "16", "17", "18", "19", "20",
     "21", "22", "23", "24", "25", "26", "27", "28", "29", "30", "31"}

(* datetime.strptime(end_date, '%Y%m%d') does not raise *)
ParsesYmd(date) ==
    /\ Len(date) = 3
    /\ date[1] \notin {"-"} \cup Months \cup Days
    /\ date[2] \in Months
    /\ date[3] \in Days

(* .strftime('%Y-%m-%d') *)
FormatYmd(date) == <<date[1], "-", date[2], "-", date[3]>>

(* search_query of google_search_arxiv_id(query, num, end_date) *)
SearchQuery(query, date) ==
    IF date # <<>> /\ ParsesYmd(date)
    THEN query \o <<"before:">> \o FormatYmd(date) \o <<"site:arxiv.org">>
    ELSE query \o <<"site:arxiv.org">>

(* search_arxiv_id_by_title(title): an id (maybe versioned) or None *)
TitleIds(title) ==
    CASE title = "Ta" -> {"None", "a"}
      [] title = "Tc" -> {"None", "c_v2"}
      [] title = "Td" -> {"None", "d"}
      [] title = "Tb" -> {"None", "b"}
      [] OTHER        -> {"None", "e"}

(* search_paper_by_title(title) *)
TitleResults(title) ==
    UNION { IF tid = "None" THEN {NoPaper} ELSE MetaResults(SplitV(tid))
            : tid \in TitleIds(title) }

(* search_section_by_arxiv_id(arxiv_id, cite_template): None, or the dict of *)
(* the sections with a resolvable citation, which may be empty              *)
SectionResults(id) ==
    {NoneSec, DictSec(Skeleton(id))}
        \cup (IF id = "e" THEN {DictSec(EmptyDict)} ELSE {})

(* selector.infer_score(prompts): one score per prompt (prompts are named by title) *)
Scores(title) ==
    CASE title = "Ta" -> {7}
      [] title = "Tb" -> {5}
      [] title = "Tc" -> {7}
      [] title = "Td" -> {5, 7}
      [] OTHER        -> {3}
ScoreSeqs(prompts) ==
    {sc \in [1..Len(prompts) -> 0..10] : \A i \in 1..Len(prompts) : sc[i] \in Scores(prompts[i])}

(* crawler.batch_infer(prompts): one answer per prompt *)
SelectTexts ==
    { <<"nothing">>,
      <<"Expand]", " ", "s1", "[", "Expand]", "zz", "[">> }
SelectSeqs(n) == [1..n -> SelectTexts]

(* re.findall(self.templates["expand"], crawl_result): the parse of each
   possible answer, tabulated *)
ExpandSections == [t \in SelectTexts |-> FindAll(t, "Expand]")]

(***************************************************************************)
(* State                                                                   *)
(***************************************************************************)
VARIABLES
    mainPc,          \* position of the coordinating thread in run()
    depth,           \* loop variable of run()
    plan,            \* the planner's answer (input of the run)
    end_date,        \* self.end_date
    queries,         \* the list shared by the search workers
    searchers,       \* pool of search_paper threads
    fetchers,        \* pool of get_paper_content threads
    expanders,       \* pool of do_expand threads (each owns a search_ref pool)
    new_expand,      \* expand(): expand_papers as consumed by the fetch pool
    crawl_prompts,   \* expand(): prompts, by paper
    have_full_paper, \* expand(): fetched papers
    crawl_results,   \* expand(): batch_infer answers
    nodes,           \* every PaperNode created, in creation order
    child,           \* child[n]: label -> list of nodes; 0 is the root
    papers_queue,    \* self.papers_queue
    expand_start,    \* self.expand_start
    touch_ids,       \* root.extra["touch_ids"]
    crawler_recall_papers, \* root.extra["crawler_recall_papers"]
    recall_papers,   \* root.extra["recall_papers"]
    lock,            \* self.lock is held
    frontier,        \* history: papers_queue[expand_start:] read by the last expand()
    handed,          \* history: expand_papers handed to the fetch pool
    dropped,         \* history: node -> round in which the budget dropped it
    section_fetches, \* history: node -> number of search_section_by_arxiv_id calls
    stale_fetches,   \* history: nodes fetched although sections were populated
    search_phases,   \* history: number of search() calls
    rounds,          \* history: number of expand() calls
    raw_results,     \* history: bag of <<query, ids>> returned by the keyword search
    meta_found,      \* history: ids whose metadata a search worker fetched
    meta_failed,     \* history: ids a search worker claimed and failed to fetch
    replies,         \* history: node -> the batch_infer answer to the node's prompt
    answers,         \* history: node -> the batch_infer answer do_expand popped for it
    title_searches,  \* history: nodes for whose citations a title search was issued
    claimed_for,     \* history: nodes for whose citations an id entered touch_ids
    google_key,      \* utils.GOOGLE_KEY
    responses,       \* what the search service does on the 1st, 2nd, ... request
    google_pc,       \* position in google_search_arxiv_id
    attempt,         \* iterations of `for _ in range(3)` completed
    requests,        \* history: number of requests posted by the call
    returned         \* the list google_search_arxiv_id returns

(* the call of google_search_arxiv_id under study *)
google == <<google_key, responses, google_pc, attempt, requests, returned>>

vars == <<mainPc, depth, plan, end_date, google, queries, searchers, fetchers, expanders,
          new_expand, crawl_prompts, have_full_paper, crawl_results,
          nodes, child, papers_queue, expand_start, touch_ids,
          crawler_recall_papers, recall_papers, lock,
          frontier, handed, dropped, section_fetches, stale_fetches,
          search_phases, rounds, raw_results, meta_found, meta_failed,
          replies, answers, title_searches, claimed_for>>

shared == <<nodes, child, papers_queue, expand_start, touch_ids,
            crawler_recall_papers, recall_papers>>
searchHistory == <<raw_results, meta_found, meta_failed>>
resolveHistory == <<replies, answers, title_searches, claimed_for>>
history == <<frontier, handed, dropped, section_fetches, stale_fetches,
             search_phases, rounds, searchHistory, resolveHistory>>
expandLists == <<new_expand, crawl_prompts, have_full_paper, crawl_results>>

(* local state of a thread at the top of its loop *)
SearchWorker0 ==
    [pc |-> "top", query |-> <<>>, sent |-> <<>>, ids |-> <<>>, arxiv_id |-> "",
     fresh |-> FALSE, papers |-> <<>>, scores |-> <<>>, holds |-> {}]
FetchWorker0 == [pc |-> "top", paper |-> 0]
RefWorker0 ==
    [pc |-> "top", section |-> <<>>, title |-> "", paper |-> NoPaper,
     fresh |-> FALSE, holds |-> {}]
ExpandWorker0 ==
    [pc |-> "top", paper |-> 0, ori |-> <<>>, prompts |-> <<>>,
     sources |-> <<>>, scores |-> <<>>, node |-> 0, rlock |-> FALSE,
     pool |-> EmptyBag]

(* a thread has returned (or died), or is at its `while items:` with items empty *)
Terminated(w, items) == w.pc \in {"done", "crashed"} \/ (w.pc = "top" /\ items = <<>>)

(* self.depth = attrs.get("depth", -1): the depth of the root, which is built *)
(* without one                                                              *)
RootDepth == -1

(* PaperNode.__init__ *)
PaperNode(paper, d, src, score) ==
    [title |-> paper.title, arxiv_id |-> paper.arxiv_id, depth |-> d,
     sections |-> paper.sections, source |-> src, select_score |-> score,
     expand |-> ""]

(* the agent as constructed, before the planner has answered *)
Constructed ==
    /\ mainPc = "search"
    /\ depth = 0
    /\ queries = <<>>
    /\ searchers = EmptyBag
    /\ fetchers = EmptyBag
    /\ expanders = EmptyBag
    /\ new_expand = <<>>
    /\ crawl_prompts = <<>>
    /\ have_full_paper = <<>>
    /\ crawl_results = <<>>
    /\ nodes = <<>>
    /\ child = [n \in {0} |-> EmptyDict]
    /\ papers_queue = <<>>
    /\ expand_start = 0
    /\ touch_ids = <<>>
    /\ crawler_recall_papers = EmptyBag
    /\ recall_papers = EmptyBag
    /\ lock = FALSE
    /\ frontier = <<>>
    /\ handed = <<>>
    /\ dropped = EmptyDict
    /\ section_fetches = EmptyBag
    /\ stale_fetches = {}
    /\ search_phases = 0
    /\ rounds = 0
    /\ raw_results = EmptyBag
    /\ meta_found = {}
    /\ meta_failed = {}
    /\ replies = EmptyDict
    /\ answers = EmptyDict
    /\ title_searches = {}
    /\ claimed_for = {}

(* no call of google_search_arxiv_id is followed step by step *)
NoGoogleCall ==
    /\ google_key = "key"
    /\ responses = <<>>
    /\ google_pc = "idle"
    /\ attempt = 0
    /\ requests = 0
    /\ returned = <<>>

(* end_date: str = datetime.now().strftime("%Y%m%d") *)
Init ==
    /\ plan \in PlannerTexts
    /\ end_date = DefaultEndDate
    /\ Constructed
    /\ NoGoogleCall

(***************************************************************************)
(* do_parallel: start num threads, then join them all.                     *)
(***************************************************************************)
Spawn(w0, num) == Copies(w0, num)
(* variant: the popped item is read but stays in the list *)
AfterPop0Kept(items) == items

(* items.pop(0): what is left in the shared list *)
AfterPop0(items) == Tail(items)

(* variant: no thread.join() *)
JoinedNoWait(pool, items) == TRUE
Joined(pool, items) == \A w \in BagToSet(pool) : Terminated(w, items)

(***************************************************************************)
(* search()                                                                *)
(***************************************************************************)
(* variant: a text without directives is used as the one query *)
PlannedQueriesFallback(text) ==
    IF FindAll(text, "Search]") = <<>> THEN <<Strip(text)>>
    ELSE Take(StripAll(FindAll(text, "Search]")), search_queries)

(* [q.strip() for q in re.findall(...)][:self.search_queries] *)
PlannedQueries(text) == Take(StripAll(FindAll(text, "Search]")), search_queries)

Search ==
    /\ mainPc = "search"
    /\ queries' = PlannedQueries(plan)
    /\ searchers' = Spawn(SearchWorker0, Len(PlannedQueries(plan)))
    /\ search_phases' = search_phases + 1
    /\ mainPc' = "join_search"
    /\ UNCHANGED <<depth, plan, end_date, google, fetchers, expanders, expandLists, shared, lock,
                   frontier, handed, dropped, section_fetches, stale_fetches, rounds,
                   searchHistory, resolveHistory>>

(***************************************************************************)
(* search_paper(queries), one thread w                                     *)
(***************************************************************************)
SearchStep(w, w2) ==
    /\ searchers' = Replace(searchers, w, w2)
    /\ UNCHANGED <<mainPc, depth, plan, end_date, google, fetchers, expanders, expandLists,
                   frontier, handed, dropped, section_fetches, stale_fetches,
                   search_phases, rounds, resolveHistory>>

(* while queries: *)
SearchPaperLoop(w) ==
    /\ w.pc = "top"
    /\ queries # <<>>
    /\ SearchStep(w, [w EXCEPT !.pc = "pop"])
    /\ UNCHANGED <<queries, shared, lock, searchHistory>>

(* variant: the claimed query is read but stays in the list *)
AfterPopKept(items) == items

(* queries.pop(): what is left in the shared list *)
AfterPop(items) == SubSeq(items, 1, Len(items) - 1)

(* with self.lock: query, self.root.child[query] = queries.pop(), [] *)
SearchPaperClaim(w) ==
    /\ w.pc = "pop"
    /\ ~lock
    /\ IF queries = <<>>
       THEN /\ SearchStep(w, [w EXCEPT !.pc = "crashed"])
            /\ UNCHANGED <<queries, child>>
       ELSE LET q == queries[Len(queries)]
            IN  /\ queries' = AfterPop(queries)
                /\ child' = [child EXCEPT ![0] = SetKey(child[0], q, <<>>)]
                /\ SearchStep(w, [w EXCEPT !.pc = "search", !.query = q])
    /\ UNCHANGED <<nodes, papers_queue, expand_start, touch_ids,
                   crawler_recall_papers, recall_papers, lock, searchHistory>>

(* pre_arxiv_ids = google_search_arxiv_id(query, self.search_papers, self.end_date) *)
SearchPaperGoogle(w) ==
    /\ w.pc = "search"
    /\ \E r \in RawResults(w.query) :
          /\ SearchStep(w, [w EXCEPT !.pc = "ids", !.ids = r,
                                     !.sent = SearchQuery(w.query, end_date)])
          /\ raw_results' = raw_results (+) SetToBag({<<w.query, r>>})
    /\ UNCHANGED <<queries, shared, lock, meta_found, meta_failed>>

(* variant: the membership test is skipped *)
NotTouchedAlways(arxiv_id, touched) == TRUE

(* if arxiv_id not in self.root.extra["touch_ids"] *)
NotTouched(arxiv_id, touched) == arxiv_id \notin Range(touched)

(* for arxiv_id in pre_arxiv_ids: split, self.lock.acquire(), membership test *)
SearchPaperTest(w) ==
    /\ w.pc = "ids"
    /\ IF w.ids = <<>>
       THEN /\ SearchStep(w, [w EXCEPT !.pc = "score"])
            /\ UNCHANGED lock
       ELSE /\ ~lock
            /\ lock' = TRUE
            /\ SearchStep(w, [w EXCEPT !.pc = "set",
                                       !.arxiv_id = SplitV(Head(w.ids)),
                                       !.ids = Tail(w.ids),
                                       !.fresh = NotTouched(SplitV(Head(w.ids)), touch_ids),
                                       !.holds = {"run"}])
    /\ UNCHANGED <<queries, shared, searchHistory>>

(* variant: the winning branch forgets self.lock.release() *)
HoldsAfterReleaseKept(holds) == holds

(* the lock state of a search worker that leaves the test-and-set *)
HoldsAfterRelease(holds) == holds \ {"run"}

(* touch_ids.append(arxiv_id); self.lock.release()  /  else: self.lock.release() *)
SearchPaperSet(w) ==
    /\ w.pc = "set"
    /\ touch_ids' = IF w.fresh THEN Append(touch_ids, w.arxiv_id) ELSE touch_ids
    /\ lock' = ("run" \in HoldsAfterRelease(w.holds))
    /\ SearchStep(w, [w EXCEPT !.pc = IF w.fresh THEN "fetch" ELSE "ids",
                               !.fresh = FALSE,
                               !.arxiv_id = IF w.fresh THEN w.arxiv_id ELSE "",
                               !.holds = HoldsAfterRelease(w.holds)])
    /\ UNCHANGED <<queries, nodes, child, papers_queue, expand_start,
                   crawler_recall_papers, recall_papers, searchHistory>>

(* paper = search_paper_by_arxiv_id(arxiv_id); append unless None *)
SearchPaperFetch(w) ==
    /\ w.pc = "fetch"
    /\ \E p \in MetaResults(w.arxiv_id) :
          /\ SearchStep(w, [w EXCEPT !.pc = "ids", !.arxiv_id = "",
                                     !.papers = IF p = NoPaper THEN w.papers
                                                ELSE Append(w.papers, p)])
          /\ meta_found' = IF p = NoPaper THEN meta_found
                           ELSE meta_found \cup {w.arxiv_id}
          /\ meta_failed' = IF p = NoPaper THEN meta_failed \cup {w.arxiv_id}
                            ELSE meta_failed
    /\ UNCHANGED <<queries, shared, lock, raw_results>>

(* scores = self.selector.infer_score(select_prompts) *)
SearchPaperScore(w) ==
    /\ w.pc = "score"
    /\ \E sc \in ScoreSeqs([i \in 1..Len(w.papers) |-> w.papers[i].title]) :
          SearchStep(w, [w EXCEPT !.pc = "attach", !.scores = sc])
    /\ UNCHANGED <<queries, shared, lock, searchHistory>>

(* variant: a score of exactly 0.5 is selected as well *)
IsSelectedAtLeast(score) == score >= SelectThreshold

(* if score > 0.5 *)
IsSelected(score) == score > SelectThreshold

RECURSIVE BagOfSeq(_)
BagOfSeq(s) == IF s = <<>> THEN EmptyBag
               ELSE SetToBag({Head(s)}) (+) BagOfSeq(Tail(s))

(* with self.lock: for score, paper in zip(scores, searched_papers): ... *)
SearchPaperAttach(w) ==
    /\ w.pc = "attach"
    /\ ~lock
    /\ LET n     == Len(w.papers)
           base  == Len(nodes)
           fresh == [i \in 1..n |-> PaperNode(w.papers[i], 0, "Search", w.scores[i])]
           ids   == [i \in 1..n |-> base + i]
           sel   == {i \in 1..n : IsSelected(w.scores[i])}
       IN  /\ nodes' = nodes \o fresh
           /\ child' = [k \in 0..(base + n) |->
                          IF k = 0 THEN [child[0] EXCEPT ![w.query] = @ \o ids]
                          ELSE IF k <= base THEN child[k] ELSE EmptyDict]
           /\ papers_queue' = papers_queue \o ids
           /\ crawler_recall_papers' =
                 crawler_recall_papers (+) BagOfSeq([i \in 1..n |-> w.papers[i].title])
           /\ recall_papers' =
                 recall_papers (+) BagOfSeq(SelectSeq([i \in 1..n |->
                        IF i \in sel THEN w.papers[i].title ELSE ""], LAMBDA t : t # ""))
    /\ SearchStep(w, SearchWorker0)
    /\ UNCHANGED <<queries, expand_start, touch_ids, lock, searchHistory>>

(***************************************************************************)
(* run(): self.search() has returned                                       *)
(***************************************************************************)
(* variant: one round too many *)
MoreLayersOneMore(d) == d <= expand_layers

(* for depth in range(self.expand_layers) *)
MoreLayers(d) == d < expand_layers

SearchJoin ==
    /\ mainPc = "join_search"
    /\ Joined(searchers, queries)
    /\ mainPc' = IF MoreLayers(depth) THEN "expand" ELSE "done"
    /\ UNCHANGED <<depth, plan, end_date, google, queries, searchers, fetchers, expanders,
                   expandLists, shared, lock, history>>

(***************************************************************************)
(* expand(depth)                                                           *)
(***************************************************************************)
(* PaperNode.sort_paper *)
sort_paper(n) == nodes[n].select_score

(* variant: an unstable sort, a later node overtakes its equals *)
RECURSIVE InsertDescUnstable(_, _)
InsertDescUnstable(s, x) ==
    IF s = <<>> THEN <<x>>
    ELSE IF sort_paper(Head(s)) > sort_paper(x)
         THEN <<Head(s)>> \o InsertDescUnstable(Tail(s), x)
         ELSE <<x>> \o s

(* sorted(..., key=PaperNode.sort_paper, reverse=True): stable, descending *)
RECURSIVE InsertDesc(_, _)
InsertDesc(s, x) ==
    IF s = <<>> THEN <<x>>
    ELSE IF sort_paper(Head(s)) >= sort_paper(x)
         THEN <<Head(s)>> \o InsertDesc(Tail(s), x)
         ELSE <<x>> \o s

RECURSIVE SortedDesc(_)
SortedDesc(s) ==
    IF s = <<>> THEN <<>>
    ELSE InsertDesc(SortedDesc(SubSeq(s, 1, Len(s) - 1)), s[Len(s)])

(* if depth > 0: expand_papers = expand_papers[:self.expand_papers] *)
Budget(sorted, d) == IF d > 0 THEN Take(sorted, expand_papers) ELSE sorted

(* variant: the cursor is set to the number of papers handed to the fetch pool *)
NewExpandStartGiven(queue, given) == Len(given)

(* variant: the cursor only passes the papers handed to the fetch pool *)
NewExpandStartPartial(queue, given) == expand_start + Len(given)

(* self.expand_start = len(self.papers_queue) *)
NewExpandStart(queue, given) == Len(queue)

(* variant: only the sorted papers are written back *)
RewrittenWithoutPrefix(scheduled, sorted) == sorted

(* self.papers_queue = self.papers_queue[:self.expand_start] + expand_papers *)
Rewritten(scheduled, sorted) == scheduled \o sorted

Expand ==
    /\ mainPc = "expand"
    /\ LET pending == SubSeq(papers_queue, expand_start + 1, Len(papers_queue))
           sorted  == SortedDesc(pending)
           queue   == Rewritten(SubSeq(papers_queue, 1, expand_start), sorted)
           given   == Budget(sorted, depth)
       IN  /\ papers_queue' = queue
           /\ expand_start' = NewExpandStart(queue, given)
           /\ new_expand' = given
           /\ frontier' = pending
           /\ handed' = given
           /\ dropped' = [n \in (DOMAIN dropped) \cup (Range(sorted) \ Range(given)) |->
                             IF n \in DOMAIN dropped THEN dropped[n] ELSE depth]
    /\ crawl_prompts' = <<>>
    /\ have_full_paper' = <<>>
    /\ crawl_results' = <<>>
    /\ fetchers' = Spawn(FetchWorker0, threads_num)
    /\ expanders' = EmptyBag
    /\ rounds' = rounds + 1
    /\ mainPc' = "join_fetch"
    /\ UNCHANGED <<depth, plan, end_date, google, queries, searchers, nodes, child,
                   touch_ids, crawler_recall_papers, recall_papers, lock,
                   section_fetches, stale_fetches, search_phases, searchHistory,
                   resolveHistory>>

(***************************************************************************)
(* get_paper_content(new_expand, crawl_prompts, have_full_paper), thread f *)
(***************************************************************************)
FetchStep(f, f2) ==
    /\ fetchers' = Replace(fetchers, f, f2)
    /\ UNCHANGED <<mainPc, depth, plan, end_date, google, queries, searchers, expanders, crawl_results,
                   child, papers_queue, expand_start, touch_ids,
                   crawler_recall_papers, recall_papers,
                   frontier, handed, dropped, search_phases, rounds, searchHistory,
                   resolveHistory>>

(* variant: the skeleton is fetched whatever the node holds *)
NeedsFetchAlways(sections) == TRUE

(* if paper.sections == "": *)
NeedsFetch(sections) == sections = EmptyStr

(* while new_expand: with self.lock: paper = new_expand.pop(0); the sections test *)
GetPaperContentPop(f) ==
    /\ f.pc = "top"
    /\ new_expand # <<>>
    /\ ~lock
    /\ LET p == Head(new_expand)
       IN  /\ new_expand' = AfterPop0(new_expand)
           /\ IF NeedsFetch(nodes[p].sections)
              THEN /\ FetchStep(f, [f EXCEPT !.pc = "fetch", !.paper = p])
                   /\ UNCHANGED nodes
              ELSE /\ FetchStep(f, [f EXCEPT !.pc = "append", !.paper = p])
                   /\ nodes' = [nodes EXCEPT ![p].expand = "not expand"]
    /\ UNCHANGED <<crawl_prompts, have_full_paper, lock, section_fetches, stale_fetches>>

(* variant: the node is rebuilt from the fetched data and loses its score *)
SetSectionsRebuilt(node, sec) ==
    [node EXCEPT !.sections = sec, !.select_score = 0,
                 !.expand = IF Falsy(sec) THEN "get full paper error" ELSE "not expand"]

(* paper.sections = ...; paper.extra["expand"] = ...: the node is updated in place *)
SetSections(node, sec) ==
    [node EXCEPT !.sections = sec,
                 !.expand = IF Falsy(sec) THEN "get full paper error" ELSE "not expand"]

(* paper.sections = search_section_by_arxiv_id(...); error status when falsy *)
GetPaperContentFetch(f) ==
    /\ f.pc = "fetch"
    /\ \E sec \in SectionResults(nodes[f.paper].arxiv_id) :
          /\ nodes' = [nodes EXCEPT ![f.paper] = SetSections(@, sec)]
          /\ FetchStep(f, IF Falsy(sec) THEN FetchWorker0
                          ELSE [f EXCEPT !.pc = "append"])
    /\ section_fetches' = section_fetches (+) SetToBag({f.paper})
    /\ stale_fetches' = IF nodes[f.paper].sections = EmptyStr THEN stale_fetches
                        ELSE stale_fetches \cup {f.paper}
    /\ UNCHANGED <<new_expand, crawl_prompts, have_full_paper, lock>>

(* with self.lock: have_full_paper.append(paper); crawl_prompts.append(prompt) *)
GetPaperContentAppend(f) ==
    /\ f.pc = "append"
    /\ ~lock
    /\ have_full_paper' = Append(have_full_paper, f.paper)
    /\ crawl_prompts' = Append(crawl_prompts, f.paper)
    /\ FetchStep(f, FetchWorker0)
    /\ UNCHANGED <<new_expand, nodes, lock, section_fetches, stale_fetches>>

(* crawl_results = self.crawler.batch_infer(crawl_prompts); start the do_expand pool *)
BatchInfer ==
    /\ mainPc = "join_fetch"
    /\ Joined(fetchers, new_expand)
    /\ crawl_results' \in SelectSeqs(Len(crawl_prompts))
    /\ replies' = [n \in (DOMAIN replies) \cup Range(crawl_prompts) |->
                      IF n \in Range(crawl_prompts)
                      THEN crawl_results'[CHOOSE i \in DOMAIN crawl_prompts : crawl_prompts[i] = n]
                      ELSE replies[n]]
    /\ expanders' = Spawn(ExpandWorker0, threads_num)
    /\ mainPc' = "join_expand"
    /\ UNCHANGED <<depth, plan, end_date, google, queries, searchers, fetchers, new_expand,
                   crawl_prompts, have_full_paper, shared, lock,
                   frontier, handed, dropped, section_fetches, stale_fetches,
                   search_phases, rounds, searchHistory,
                   answers, title_searches, claimed_for>>

(***************************************************************************)
(* do_expand(depth, have_full_paper, crawl_results), thread e              *)
(***************************************************************************)
ExpandStep(e, e2) ==
    /\ expanders' = Replace(expanders, e, e2)
    /\ UNCHANGED <<mainPc, depth, plan, end_date, google, queries, searchers, fetchers,
                   new_expand, crawl_prompts, expand_start, lock,
                   frontier, handed, dropped, section_fetches, stale_fetches,
                   search_phases, rounds, searchHistory>>

(* variant: an answer without directives falls back to the first section *)
SectionSourcesDefault(sections, dict) ==
    LET s == IF sections = <<>> THEN S1 ELSE Strip(Head(sections))
    IN  IF s \in DOMAIN dict
        THEN [i \in 1..Len(dict[s]) |-> <<s, dict[s][i]>>]
        ELSE <<>>

(* for section in crawl_result: strip, skip unknown sections, list the references *)
RECURSIVE SectionSources(_, _)
SectionSources(sections, dict) ==
    IF sections = <<>> THEN <<>>
    ELSE LET s == Strip(Head(sections))
         IN  (IF s \in DOMAIN dict
              THEN [i \in 1..Len(dict[s]) |-> <<s, dict[s][i]>>]
              ELSE <<>>) \o SectionSources(Tail(sections), dict)

(* while have_full_paper: with self.lock: pop paper and answer; parse; *)
(* start the search_ref pool                                            *)
DoExpandPop(e) ==
    /\ e.pc = "top"
    /\ have_full_paper # <<>>
    /\ ~lock
    /\ LET p == Head(have_full_paper)
       IN  /\ have_full_paper' = AfterPop0(have_full_paper)
           /\ crawl_results' = AfterPop0(crawl_results)
           /\ ExpandStep(e, [e EXCEPT
                   !.pc = "resolve", !.paper = p,
                   !.ori = SectionSources(ExpandSections[Head(crawl_results)],
                                          nodes[p].sections.dict),
                   !.pool = Spawn(RefWorker0, threads_num * ResolvePoolFactor)])
           /\ answers' = SetKey(answers, p, Head(crawl_results))
    /\ UNCHANGED <<nodes, child, papers_queue, touch_ids,
                   crawler_recall_papers, recall_papers, replies, title_searches,
                   claimed_for>>

(***************************************************************************)
(* search_ref(section_sources_ori, select_prompts, section_sources, lock), *)
(* thread r of the pool of do_expand thread e                              *)
(***************************************************************************)
RefStep(e, e2, r, r2) ==
    /\ e.pc = "resolve"
    /\ ExpandStep(e, [e2 EXCEPT !.pool = Replace(e.pool, r, r2)])
    /\ UNCHANGED <<have_full_paper, crawl_results, nodes, child, papers_queue,
                   crawler_recall_papers, recall_papers, replies, answers>>

(* while section_sources_ori: with lock: section, title = section_sources_ori.pop(0) *)
SearchRefPop(e, r) ==
    /\ r.pc = "top"
    /\ e.ori # <<>>
    /\ ~e.rlock
    /\ RefStep(e, [e EXCEPT !.ori = AfterPop0(e.ori)], r,
               [r EXCEPT !.pc = "title", !.section = Head(e.ori)[1],
                                          !.title = Head(e.ori)[2]])
    /\ UNCHANGED <<touch_ids, title_searches, claimed_for>>

(* variant: the `if searched_paper is None: continue` is missing *)
TitleSearchFailedNever(paper) == FALSE

(* if searched_paper is None *)
TitleSearchFailed(paper) == paper = NoPaper

(* searched_paper = search_paper_by_title(title); continue when None *)
SearchRefTitle(e, r) ==
    /\ r.pc = "title"
    /\ \E p \in TitleResults(r.title) :
          RefStep(e, e, r, IF TitleSearchFailed(p) THEN RefWorker0
                           ELSE [r EXCEPT !.pc = "test", !.paper = p])
    /\ title_searches' = title_searches \cup {e.paper}
    /\ UNCHANGED <<touch_ids, claimed_for>>

(* with lock: if arxiv_id not in self.root.extra["touch_ids"] *)
SearchRefTest(e, r) ==
    /\ r.pc = "test"
    /\ ~e.rlock
    /\ RefStep(e, [e EXCEPT !.rlock = TRUE], r,
               [r EXCEPT !.pc = "set", !.holds = {"ref"},
                         !.fresh = NotTouched(r.paper.arxiv_id, touch_ids)])
    /\ UNCHANGED <<touch_ids, title_searches, claimed_for>>

(* touch_ids.append(arxiv_id) / else: continue; the lock is released *)
SearchRefSet(e, r) ==
    /\ r.pc = "set"
    /\ touch_ids' = IF r.fresh THEN Append(touch_ids, r.paper.arxiv_id) ELSE touch_ids
    /\ claimed_for' = IF r.fresh THEN claimed_for \cup {e.paper} ELSE claimed_for
    /\ UNCHANGED title_searches
    /\ RefStep(e, [e EXCEPT !.rlock = FALSE], r,
               IF r.fresh THEN [r EXCEPT !.pc = "prompt", !.fresh = FALSE, !.holds = {}]
               ELSE RefWorker0)

(* variant: the entry is put in front of the list *)
SourceAppendedFirst(section_sources, entry) == <<entry>> \o section_sources

(* section_sources.append([section, searched_paper]) *)
SourceAppended(section_sources, entry) == Append(section_sources, entry)

(* with lock: select_prompts.append(prompt); section_sources.append([section, paper]) *)
SearchRefAppend(e, r) ==
    /\ r.pc = "prompt"
    /\ ~e.rlock
    /\ RefStep(e, [e EXCEPT !.prompts = Append(e.prompts, r.title),
                            !.sources = SourceAppended(e.sources, <<r.section, r.paper>>)],
               r, RefWorker0)
    /\ UNCHANGED <<touch_ids, title_searches, claimed_for>>

(***************************************************************************)
(* do_expand, after the search_ref pool is joined                          *)
(***************************************************************************)
(* scores = self.selector.infer_score(select_prompts) *)
DoExpandScore(e) ==
    /\ e.pc = "resolve"
    /\ Joined(e.pool, e.ori)
    /\ \E sc \in ScoreSeqs(e.prompts) :
          ExpandStep(e, [e EXCEPT !.pc = "recall", !.scores = sc, !.pool = EmptyBag])
    /\ UNCHANGED <<have_full_paper, crawl_results, nodes, child, papers_queue,
                   touch_ids, crawler_recall_papers, recall_papers, resolveHistory>>

(* variant: the child gets the round index *)
ChildDepthSame(d) == d

(* "depth": depth + 1 *)
ChildDepth(d) == d + 1

(* for score, (section, ref_paper) in zip(scores, section_sources):        *)
(*     the appends to the root's lists and PaperNode(...), outside the lock *)
DoExpandRecall(e) ==
    /\ e.pc = "recall"
    /\ IF e.scores = <<>> \/ e.sources = <<>>
       THEN /\ ExpandStep(e, ExpandWorker0)
            /\ UNCHANGED <<nodes, child, crawler_recall_papers, recall_papers>>
       ELSE LET score == Head(e.scores)
                paper == Head(e.sources)[2]
                n     == Len(nodes) + 1
            IN  /\ crawler_recall_papers' =
                       crawler_recall_papers (+) SetToBag({paper.title})
                /\ recall_papers' =
                       IF IsSelected(score)
                       THEN recall_papers (+) SetToBag({paper.title})
                       ELSE recall_papers
                /\ nodes' = Append(nodes, PaperNode(paper, ChildDepth(depth), "Expand", score))
                /\ child' = [k \in 0..n |-> IF k = n THEN EmptyDict ELSE child[k]]
                /\ ExpandStep(e, [e EXCEPT !.pc = "attach", !.node = n])
    /\ UNCHANGED <<have_full_paper, crawl_results, papers_queue, touch_ids,
                   resolveHistory>>

(* variant: the expanded paper itself is appended to its children list *)
AttachedParent(children, paper_node, paper) == Append(children, paper)

(* paper.child[section].append(paper_node) *)
Attached(children, paper_node, paper) == Append(children, paper_node)

(* variant: the status of the expanded paper is left as it was *)
ExpandedKept(node) == node

(* paper.extra["expand"] = "success" *)
Expanded(node) == [node EXCEPT !.expand = "success"]

(* with self.lock: paper.child[section].append(paper_node); status; queue append *)
DoExpandAttach(e) ==
    /\ e.pc = "attach"
    /\ ~lock
    /\ LET section == Head(e.sources)[1]
           old     == IF section \in DOMAIN child[e.paper]
                      THEN child[e.paper][section] ELSE <<>>
       IN  child' = [child EXCEPT ![e.paper] =
                               SetKey(@, section, Attached(old, e.node, e.paper))]
    /\ nodes' = [nodes EXCEPT ![e.paper] = Expanded(@)]
    /\ papers_queue' = Append(papers_queue, e.node)
    /\ ExpandStep(e, [e EXCEPT !.pc = "recall", !.node = 0,
                               !.scores = Tail(e.scores),
                               !.sources = Tail(e.sources),
                               !.prompts = Tail(e.prompts)])
    /\ UNCHANGED <<have_full_paper, crawl_results, touch_ids,
                   crawler_recall_papers, recall_papers, resolveHistory>>

(* run(): expand(depth) has returned; next depth of range(self.expand_layers) *)
ExpandJoin ==
    /\ mainPc = "join_expand"
    /\ Joined(expanders, have_full_paper)
    /\ depth' = depth + 1
    /\ mainPc' = IF MoreLayers(depth + 1) THEN "expand" ELSE "done"
    /\ UNCHANGED <<plan, end_date, google, queries, searchers, fetchers, expanders,
                   expandLists, shared, lock, history>>

Next ==
    \/ Search
    \/ \E w \in BagToSet(searchers) :
          \/ SearchPaperLoop(w)
          \/ SearchPaperClaim(w)
          \/ SearchPaperGoogle(w)
          \/ SearchPaperTest(w)
          \/ SearchPaperSet(w)
          \/ SearchPaperFetch(w)
          \/ SearchPaperScore(w)
          \/ SearchPaperAttach(w)
    \/ SearchJoin
    \/ Expand
    \/ \E f \in BagToSet(fetchers) :
          \/ GetPaperContentPop(f)
          \/ GetPaperContentFetch(f)
          \/ GetPaperContentAppend(f)
    \/ BatchInfer
    \/ \E e \in BagToSet(expanders) :
          \/ DoExpandPop(e)
          \/ \E r \in BagToSet(e.pool) :
                \/ SearchRefPop(e, r)
                \/ SearchRefTitle(e, r)
                \/ SearchRefTest(e, r)
                \/ SearchRefSet(e, r)
                \/ SearchRefAppend(e, r)
          \/ DoExpandScore(e)
          \/ DoExpandRecall(e)
          \/ DoExpandAttach(e)
    \/ ExpandJoin

Spec == Init /\ [][Next]_vars

(* every thread the OS runs keeps being scheduled *)
FairSpec == Spec /\ WF_vars(Next)

(***************************************************************************)
(* The query planner on every model text of up to MaxPlanLen tokens.       *)
(***************************************************************************)
MaxPlanLen == 8
PlanTokens == {"Search]", "[", " ", "q1"}
PlanTexts == UNION {[1..n -> PlanTokens] : n \in 0..MaxPlanLen}
ParseInit ==
    /\ plan \in PlanTexts
    /\ end_date = DefaultEndDate
    /\ Constructed
    /\ NoGoogleCall
ParseSpec == ParseInit /\ [][Search]_vars

(***************************************************************************)
(* The search phase for every configured end_date.                         *)
(***************************************************************************)
CutoffInit ==
    /\ plan \in PlannerTexts
    /\ end_date \in EndDates
    /\ Constructed
    /\ NoGoogleCall
SearchPhase ==
    \/ Search
    \/ \E w \in BagToSet(searchers) :
          \/ SearchPaperLoop(w)
          \/ SearchPaperClaim(w)
          \/ SearchPaperGoogle(w)
          \/ SearchPaperTest(w)
          \/ SearchPaperSet(w)
          \/ SearchPaperFetch(w)
          \/ SearchPaperScore(w)
          \/ SearchPaperAttach(w)
    \/ SearchJoin
CutoffSpec == CutoffInit /\ [][SearchPhase]_vars

(***************************************************************************)
(* google_search_arxiv_id(query, num, end_date), one call, for every key   *)
(* and every behaviour of the search service on up to MaxAttempts requests *)
(***************************************************************************)
agent == <<mainPc, depth, plan, end_date, queries, searchers, fetchers, expanders,
           expandLists, shared, lock, history>>

GoogleInit ==
    /\ plan = <<>>
    /\ end_date = DefaultEndDate
    /\ Constructed
    /\ google_key \in GoogleKeys
    /\ responses \in [1..MaxAttempts -> Responses]
    /\ google_pc = "assert"
    /\ attempt = 0
    /\ requests = 0
    /\ returned = <<>>

(* assert headers['X-API-KEY'] != 'your google keys' *)
GoogleAssert ==
    /\ google_pc = "assert"
    /\ google_pc' = IF google_key = PlaceholderKey THEN "raised" ELSE "loop"
    /\ UNCHANGED <<agent, google_key, responses, attempt, requests, returned>>

(* variant: only an exception leads to the next attempt *)
TriesAgainOnException(response) == response.status = 0 \/ (response.status = 200 /\ ~response.parses)

(* the body of the loop comes to its end (status not 200) or to `continue` *)
(* (an exception of the request or of the parse) without returning         *)
TriesAgain(response) == response.status # 200 \/ ~response.parses

(* one iteration of the loop: the request, and the return on a parsed 200 *)
GoogleAttempt ==
    /\ google_pc = "loop"
    /\ attempt < MaxAttempts
    /\ requests' = requests + 1
    /\ attempt' = attempt + 1
    /\ LET response == responses[attempt + 1]
       IN  IF TriesAgain(response)
           THEN UNCHANGED <<google_pc, returned>>
           ELSE /\ google_pc' = "returned"
                /\ returned' \in ListsOfSet(Range(ArxivIdList(response.organic)))
    /\ UNCHANGED <<agent, google_key, responses>>

(* return [] after the loop *)
GoogleGiveUp ==
    /\ google_pc = "loop"
    /\ attempt >= MaxAttempts
    /\ google_pc' = "returned"
    /\ returned' = <<>>
    /\ UNCHANGED <<agent, google_key, responses, attempt, requests>>

GoogleSearchArxivId == GoogleAssert \/ GoogleAttempt \/ GoogleGiveUp
GoogleSpec == GoogleInit /\ [][GoogleSearchArxivId]_vars

(***************************************************************************)
(* Properties                                                              *)
(***************************************************************************)
NodeIds == DOMAIN nodes
ChildrenOf(p) == UNION {Range(child[p][l]) : l \in DOMAIN child[p]}
SearchReturned == mainPc \notin {"search", "join_search"}
Directives == FindAll(plan, "Search]")
(* number of places a node with this id has in the root's children lists *)
RootPlaces(id) ==
    {<<q, i>> \in (DOMAIN child[0]) \X (1..Len(nodes)) :
        i \in DOMAIN child[0][q] /\ nodes[child[0][q][i]].arxiv_id = id}
(* ids the keyword search returned for both directives *)
InBothRaw ==
    {id \in {"a", "b", "c", "d", "e"} :
        \E x, y \in BagToSet(raw_results) :
            /\ (x # y \/ CopiesIn(x, raw_results) > 1)
            /\ id \in Range(x[2]) /\ id \in Range(y[2])}
(* every search_ref thread of the run, with its do_expand thread *)
RefThreads == {<<e, r>> \in UNION {{e} \X BagToSet(e.pool) : e \in BagToSet(expanders)} : TRUE}
InTestAndSet ==
    Cardinality({w \in BagToSet(searchers) : w.pc = "set"})
      + Cardinality({er \in RefThreads : er[2].pc = "set"})

(* C1: no external id (arxiv_id) belongs to more than one PaperNode, in    *)
(* every reachable state of the run.                                       *)
C1_GlobalDedup ==
    \A i, j \in NodeIds : nodes[i].arxiv_id = nodes[j].arxiv_id => i = j

(* C2 as stated: with two Search]...[ directives, after search() the root  *)
(* has exactly two query-edge children, every node under them has depth 0  *)
(* and a score, and an id in the raw results of both queries has exactly   *)
(* one node, under exactly one label.                                      *)
C2_AsStated ==
    (SearchReturned /\ Len(Directives) = 2) =>
        /\ Cardinality(DOMAIN child[0]) = 2
        /\ \A n \in ChildrenOf(0) : nodes[n].depth = 0 /\ nodes[n].select_score \in 0..10
        /\ \A id \in InBothRaw : Cardinality(RootPlaces(id)) = 1

(* C2 amended: with two directives of distinct trimmed payloads and        *)
(* search_queries >= 2, after search() the root has exactly two query-edge *)
(* children, every node under them has depth 0 and a score, and an id in   *)
(* the raw results of both queries has at most one node, under one label,  *)
(* and exactly one when its metadata fetch returned a paper.               *)
C2_TwoDistinctQueries ==
    (/\ SearchReturned
     /\ Len(Directives) = 2
     /\ Strip(Directives[1]) # Strip(Directives[2])
     /\ search_queries >= 2) =>
        /\ Cardinality(DOMAIN child[0]) = 2
        /\ DOMAIN child[0] = {Strip(Directives[1]), Strip(Directives[2])}
        /\ \A n \in ChildrenOf(0) : nodes[n].depth = 0 /\ nodes[n].select_score \in 0..10
        /\ \A id \in InBothRaw :
              /\ Cardinality(RootPlaces(id)) <= 1
              /\ id \in meta_found => Cardinality(RootPlaces(id)) = 1

C2_Witness ==
    /\ SearchReturned
    /\ Len(Directives) = 2
    /\ Strip(Directives[1]) # Strip(Directives[2])
    /\ "a" \in InBothRaw
    /\ Cardinality(RootPlaces("a")) = 1
    /\ Cardinality(ChildrenOf(0)) = 2

(* C8: every test-and-set on touch_ids runs under the one run-wide lock,   *)
(* so at most one thread is between the membership test and the insertion. *)
C8_OneLockForTouchIds ==
    /\ \A w \in BagToSet(searchers) : w.pc = "set" => "run" \in w.holds
    /\ \A er \in RefThreads : er[2].pc = "set" => "run" \in er[2].holds
    /\ InTestAndSet <= 1

Pos(seq, x) == CHOOSE i \in DOMAIN seq : seq[i] = x
Better(x, y) ==
    \/ nodes[x].select_score > nodes[y].select_score
    \/ /\ nodes[x].select_score = nodes[y].select_score
       /\ Pos(frontier, x) < Pos(frontier, y)
(* C3: in expand(depth) with depth > 0 the papers handed to the fetch      *)
(* phase are exactly the expand_papers highest-scored nodes of the round's *)
(* frontier, ties going to the node discovered earlier, min(K, |frontier|) *)
(* of them; in expand(0) the whole frontier is handed over.                *)
C3_Budget ==
    rounds >= 1 =>
        LET H == Range(handed)
            F == Range(frontier)
        IN  /\ Cardinality(H) = Len(handed)
            /\ IF rounds - 1 > 0
               THEN /\ H \subseteq F
                    /\ Len(handed) = IF expand_papers < Len(frontier)
                                     THEN expand_papers ELSE Len(frontier)
                    /\ \A x \in H : \A y \in F \ H : Better(x, y)
               ELSE H = F /\ Len(handed) = Len(frontier)

C3_Witness ==
    /\ rounds >= 2
    /\ \E x \in Range(handed) : \E y \in Range(frontier) \ Range(handed) :
          /\ nodes[x].select_score = nodes[y].select_score
          /\ Pos(frontier, x) < Pos(frontier, y)
    /\ \E x \in Range(handed) : \E y \in Range(frontier) \ Range(handed) :
          nodes[x].select_score > nodes[y].select_score

InHands(n) ==
    \/ \E f \in BagToSet(fetchers) : f.pc # "top" /\ f.paper = n
    \/ \E e \in BagToSet(expanders) : e.pc # "top" /\ e.paper = n
(* C4: a frontier node dropped by the budget of round d is in no later     *)
(* round's frontier, is never fetched and never receives children.         *)
C4_DroppedNeverRevisited ==
    \A n \in DOMAIN dropped :
        /\ rounds - 1 > dropped[n] => n \notin Range(frontier)
        /\ n \notin Range(handed)
        /\ n \notin Range(new_expand) \cup Range(have_full_paper)
        /\ ~InHands(n)
        /\ CopiesIn(n, section_fetches) = 0
        /\ nodes[n].expand = ""
        /\ DOMAIN child[n] = {}

C4_Witness ==
    \E n \in DOMAIN dropped :
        /\ rounds - 1 > dropped[n]
        /\ frontier # <<>>
        /\ mainPc = "done"

(* C5: every Expand-edge child has its parent's depth plus one and every   *)
(* Search-edge child of the root has depth 0.                              *)
C5_Depth ==
    \A p \in DOMAIN child : \A c \in ChildrenOf(p) :
        nodes[c].depth = IF p = 0 THEN 0 ELSE nodes[p].depth + 1

C5_Witness ==
    \E p \in NodeIds : \E c \in ChildrenOf(p) :
        nodes[p].depth = 1 /\ nodes[c].depth = 2

(* every thread of the pool has returned *)
AllTerminated(pool, items) == \A w \in BagToSet(pool) : Terminated(w, items)
LiveRefThreads == {er \in RefThreads : ~Terminated(er[2], er[1].ori)}
(* C6: rounds never overlap: search workers have terminated before         *)
(* expand(0), every worker of a round before the next round; fetch workers *)
(* are joined before the batched selection call, which completes before    *)
(* any resolve worker starts.                                              *)
C6_RoundsNeverOverlap ==
    /\ SearchReturned => AllTerminated(searchers, queries)
    /\ mainPc \in {"search", "join_search"} => fetchers = EmptyBag /\ expanders = EmptyBag
    /\ mainPc \in {"expand", "done"} =>
          /\ AllTerminated(fetchers, new_expand)
          /\ AllTerminated(expanders, have_full_paper)
          /\ LiveRefThreads = {}
    /\ mainPc = "join_fetch" => expanders = EmptyBag
    /\ mainPc = "join_expand" => AllTerminated(fetchers, new_expand)
    /\ LiveRefThreads # {} => mainPc = "join_expand"

C6_Witness ==
    /\ mainPc = "join_expand"
    /\ rounds = 2
    /\ \E er \in LiveRefThreads : er[2].pc = "set"

(* C7: run() always terminates, after exactly one search phase and exactly *)
(* expand_layers expansion rounds, whatever the external calls return.     *)
C7_RunTerminates ==
    <>(mainPc = "done" /\ search_phases = 1 /\ rounds = expand_layers)

C7_Witness ==
    /\ mainPc = "done"
    /\ search_phases = 1
    /\ rounds = expand_layers
    /\ \E n \in NodeIds : nodes[n].expand = "get full paper error"
    /\ \E n \in NodeIds : nodes[n].expand = "success"

(* C9: no thread holds the run lock or a resolve lock while it performs a  *)
(* network call or a model call.                                           *)
C9_NoLockAcrossCalls ==
    /\ \A w \in BagToSet(searchers) :
          w.pc \in {"search", "fetch", "score"} => w.holds = {}
    /\ \A er \in RefThreads : er[2].pc = "title" => er[2].holds = {}
    /\ lock => \E w \in BagToSet(searchers) : w.pc = "set" /\ w.holds = {"run"}
    /\ \A e \in BagToSet(expanders) :
          e.rlock => \E r \in BagToSet(e.pool) : r.pc = "set" /\ r.holds = {"ref"}

C9_Witness ==
    /\ lock
    /\ \E w \in BagToSet(searchers) : w.pc = "fetch"

(* C10: at most one section-skeleton fetch is issued per node, and none    *)
(* for a node whose sections are already populated.                        *)
C10_IdempotentFetch ==
    /\ \A n \in NodeIds : CopiesIn(n, section_fetches) <= 1
    /\ stale_fetches = {}
    /\ \A n \in NodeIds :
          nodes[n].arxiv_id \in LocalDb => CopiesIn(n, section_fetches) = 0

C10_Witness ==
    /\ \E n \in NodeIds : /\ nodes[n].arxiv_id \in LocalDb
                          /\ nodes[n].expand = "success"
                          /\ CopiesIn(n, section_fetches) = 0
    /\ \E n \in NodeIds : CopiesIn(n, section_fetches) = 1

(* C11: a node's select_score is assigned at creation and is unchanged by  *)
(* every later step of the run.                                            *)
C11_ScoreWriteOnce ==
    [][\A n \in DOMAIN nodes :
          /\ n \in DOMAIN nodes'
          /\ nodes'[n].select_score = nodes[n].select_score]_vars

C11_Witness ==
    /\ rounds >= 2
    /\ \E n \in NodeIds : /\ nodes[n].select_score > 0
                          /\ section_fetches # EmptyBag
                          /\ CopiesIn(n, section_fetches) = 1
                          /\ nodes[n].expand = "success"

(* C12: the length of papers_queue never decreases, expand_start never     *)
(* decreases, and 0 <= expand_start <= len(papers_queue) in every state.   *)
C12_MonotonicGrowth ==
    /\ 0 <= expand_start /\ expand_start <= Len(papers_queue)
    /\ [][/\ Len(papers_queue') >= Len(papers_queue)
          /\ expand_start' >= expand_start
          /\ 0 <= expand_start'
          /\ expand_start' <= Len(papers_queue')]_vars

C12_Witness ==
    /\ rounds >= 2
    /\ 0 < expand_start
    /\ expand_start < Len(papers_queue)
    /\ Len(handed) < Len(frontier)

(* C13: a node at index i of papers_queue stays at index i for the rest of *)
(* the run, and for i < j the node at index i was created no later than    *)
(* the node at index j (nodes are numbered in creation order).             *)
C13_AppendOnlyCreationOrder ==
    [][/\ \A i \in DOMAIN papers_queue :
             i \in DOMAIN papers_queue' /\ papers_queue'[i] = papers_queue[i]
       /\ \A i, j \in DOMAIN papers_queue' :
             i < j => papers_queue'[i] < papers_queue'[j]]_vars

(* C14: if the section-selection answer for a fetched paper holds no       *)
(* Expand]...[ directive, the paper's expand status is "not expand", it    *)
(* gets no child, no title search is issued for it and no id enters        *)
(* touch_ids on its behalf.                                                *)
NoExpandDirective(text) ==
    ~ \E i, j \in DOMAIN text : i < j /\ text[i] = "Expand]" /\ text[j] = "["
C14_NoDirectiveNoExpansion ==
    \A n \in DOMAIN answers :
        NoExpandDirective(answers[n]) =>
            /\ nodes[n].expand = "not expand"
            /\ DOMAIN child[n] = {}
            /\ n \notin title_searches
            /\ n \notin claimed_for

C14_Witness ==
    /\ mainPc = "done"
    /\ \E n \in DOMAIN answers : NoExpandDirective(answers[n])
    /\ \E n \in DOMAIN answers : ~NoExpandDirective(answers[n]) /\ n \in claimed_for

(* C15: an id a search worker claimed and failed to fetch stays in         *)
(* touch_ids, no node with that id is ever created (by a search worker or  *)
(* by a resolve worker of a later round), the worker goes on with the      *)
(* remaining ids of its query (every id of every raw result has been       *)
(* tested when search() returns), and touch_ids never loses an element.    *)
C15_FailedStaysClaimed ==
    [][/\ Range(touch_ids) \subseteq Range(touch_ids')
       /\ \A id \in meta_failed' :
             /\ id \in Range(touch_ids')
             /\ \A n \in DOMAIN nodes' : nodes'[n].arxiv_id # id
       /\ SearchReturned' =>
             \A x \in BagToSet(raw_results') : \A i \in DOMAIN x[2] :
                 SplitV(x[2][i]) \in Range(touch_ids')]_vars

C15_Witness ==
    /\ "a" \in meta_failed
    /\ \E n \in NodeIds : nodes[n].arxiv_id = "b"
    /\ \E er \in RefThreads :
          /\ er[2].pc = "set"
          /\ er[2].paper.arxiv_id = "a"
          /\ ~er[2].fresh

(* C16: a planner output without a valid Search]...[ directive (empty or   *)
(* malformed text included) gives an empty query list, search() starts no  *)
(* search worker, the root gets no children, and run() still performs its  *)
(* expand_layers rounds over an empty frontier and completes.              *)
NoSearchDirective ==
    ~ \E i, j \in DOMAIN plan : i < j /\ plan[i] = "Search]" /\ plan[j] = "["
C16_NoDirectiveDegrades ==
    /\ [](NoSearchDirective =>
             /\ queries = <<>>
             /\ searchers = EmptyBag
             /\ DOMAIN child[0] = {}
             /\ nodes = <<>>
             /\ frontier = <<>> /\ handed = <<>>)
    /\ (NoSearchDirective ~> (mainPc = "done" /\ search_phases = 1
                                /\ rounds = expand_layers))

C16_Witness ==
    /\ plan = <<"Search]", "q1">>
    /\ mainPc = "done"
    /\ rounds = expand_layers
    /\ fetchers # EmptyBag

(* C17: the planned queries are the trimmed payloads of the Search]...[    *)
(* directives of the model text, read left to right: a directive opens at  *)
(* a marker `Search]` outside any directive and closes at the next `[`;    *)
(* text outside directives is discarded, a marker with no later `[` gives  *)
(* nothing; the payloads are kept in order of appearance and cut to the    *)
(* first search_queries.                                                   *)
RECURSIVE ScanDirectives(_, _, _, _)
ScanDirectives(text, open, payload, out) ==
    IF text = <<>> THEN out
    ELSE IF open
         THEN IF Head(text) = "["
              THEN ScanDirectives(Tail(text), FALSE, <<>>, Append(out, payload))
              ELSE ScanDirectives(Tail(text), TRUE, Append(payload, Head(text)), out)
         ELSE IF Head(text) = "Search]"
              THEN ScanDirectives(Tail(text), TRUE, <<>>, out)
              ELSE ScanDirectives(Tail(text), FALSE, <<>>, out)
RECURSIVE Trimmed(_)
Trimmed(s) ==
    IF s = <<>> THEN <<>>
    ELSE IF Head(s) = " " THEN Trimmed(Tail(s))
    ELSE IF s[Len(s)] = " " THEN Trimmed(SubSeq(s, 1, Len(s) - 1))
    ELSE s
ExpectedQueries ==
    LET all == ScanDirectives(plan, FALSE, <<>>, <<>>)
    IN  [i \in 1..(IF Len(all) < search_queries THEN Len(all) ELSE search_queries)
            |-> Trimmed(all[i])]
C17_PlannedQueries ==
    mainPc = "join_search" =>
        /\ queries = ExpectedQueries
        /\ BagCardinality(searchers) = Len(ExpectedQueries)

C17_Witness ==
    /\ mainPc = "join_search"
    /\ Len(ScanDirectives(plan, FALSE, <<>>, <<>>)) > search_queries
    /\ Len(queries) = search_queries
    /\ plan[1] # "Search]"
    /\ queries[1] # <<>>

(* C18: for every node created, in the search phase and in every round,    *)
(* its title is in the root's crawled list exactly once, and in the        *)
(* selected list exactly once if its score is strictly above 0.5 and not   *)
(* at all otherwise; a candidate that never became a node is in neither.   *)
ListedTitles ==
    {nodes[n].title : n \in NodeIds}
        \cup BagToSet(crawler_recall_papers) \cup BagToSet(recall_papers)
C18_ProvenanceLists ==
    \A t \in ListedTitles :
        /\ CopiesIn(t, crawler_recall_papers)
              = Cardinality({n \in NodeIds : nodes[n].title = t})
        /\ CopiesIn(t, recall_papers)
              = Cardinality({n \in NodeIds : /\ nodes[n].title = t
                                             /\ nodes[n].select_score > SelectThreshold})

C18_Witness ==
    /\ mainPc = "done"
    /\ meta_failed # {}
    /\ \E n \in NodeIds : /\ nodes[n].select_score = SelectThreshold
                          /\ CopiesIn(nodes[n].title, recall_papers) = 0
                          /\ CopiesIn(nodes[n].title, crawler_recall_papers) = 1
    /\ \E n \in NodeIds : /\ nodes[n].source = "Expand"
                          /\ nodes[n].select_score > SelectThreshold
                          /\ CopiesIn(nodes[n].title, recall_papers) = 1

(* C19: the graph is acyclic in every reachable state: no node is its own  *)
(* ancestor through children links, and every non-root node is contained   *)
(* in at most one children list of at most one parent, at most once.       *)
RECURSIVE Descendants(_, _)
Descendants(S, k) ==
    IF k = 0 THEN S
    ELSE Descendants(S \cup UNION {ChildrenOf(p) : p \in S \cap DOMAIN child}, k - 1)
Places(n) ==
    {pl \in UNION {{<<p, l, i>> : i \in DOMAIN child[p][l]} :
                     <<p, l>> \in UNION {{p2} \X DOMAIN child[p2] : p2 \in DOMAIN child}} :
        child[pl[1]][pl[2]][pl[3]] = n}
C19_Acyclic ==
    /\ \A n \in DOMAIN child : n \notin Descendants(ChildrenOf(n), Len(nodes))
    /\ \A n \in NodeIds : Cardinality(Places(n)) <= 1

C19_Witness ==
    /\ mainPc = "done"
    /\ \E p \in NodeIds : Cardinality(ChildrenOf(p)) >= 2
    /\ \E p \in NodeIds : \E c \in ChildrenOf(p) : ChildrenOf(c) # {}

(* C20: nodes are never deleted: a node attached to a children list stays  *)
(* attached there, and every node of papers_queue is reachable from the    *)
(* root, for the rest of the run and for every planner output.             *)
ReachableFromRoot == Descendants({0}, Len(nodes) + 1)
C20_NodesNeverDeleted ==
    [][/\ \A p \in DOMAIN child : \A l \in DOMAIN child[p] : \A i \in DOMAIN child[p][l] :
             /\ p \in DOMAIN child'
             /\ l \in DOMAIN child'[p]
             /\ i \in DOMAIN child'[p][l]
             /\ child'[p][l][i] = child[p][l][i]
       /\ Range(papers_queue') \subseteq ReachableFromRoot']_vars

(* C21: every keyword search a search worker sends carries the cutoff      *)
(* before:<end_date>, for every configured end_date.                       *)
C21_CutoffAlways ==
    \A w \in BagToSet(searchers) :
        w.sent # <<>> =>
            \E i \in DOMAIN w.sent : w.sent[i] = "before:"

(* the nodes do_expand created during round d (it gives them depth d + 1) *)
CreatedInRound(d) ==
    {n \in NodeIds : nodes[n].source = "Expand" /\ nodes[n].depth = d + 1}
(* C22: expand(d) moves the cursor to the end of papers_queue before any   *)
(* output of round d is appended: during round d the nodes behind the      *)
(* cursor are exactly the nodes of round d appended so far, none of them   *)
(* is handed to the fetch pool, fetched or expanded in round d, and the    *)
(* frontier read by expand(d+1) is exactly the set of nodes created during *)
(* round d.                                                                *)
C22_CursorAdvance ==
    /\ [](rounds >= 1 =>
            /\ \A i \in DOMAIN papers_queue :
                  i > expand_start <=> papers_queue[i] \in CreatedInRound(rounds - 1)
            /\ \A n \in CreatedInRound(rounds - 1) :
                  /\ n \notin Range(handed)
                  /\ n \notin Range(new_expand) \cup Range(have_full_paper)
                  /\ ~InHands(n)
                  /\ CopiesIn(n, section_fetches) = 0
                  /\ nodes[n].expand = ""
                  /\ DOMAIN child[n] = {})
    /\ [][(rounds >= 1 /\ rounds' = rounds + 1) =>
            /\ Range(frontier') = CreatedInRound(rounds - 1)
            /\ Len(frontier') = Cardinality(CreatedInRound(rounds - 1))]_vars

C22_Witness ==
    /\ rounds = 2
    /\ Len(frontier) = 2
    /\ \A n \in Range(frontier) : nodes[n].depth = 1
    /\ Len(handed) = 1
    /\ expand_start < Len(papers_queue)

(* C23: in the resolve+score phase the attachment of a new node to its     *)
(* owning paper's children, the appends to the root's provenance lists,    *)
(* the append to papers_queue and the recording of the expand status are   *)
(* performed while the thread holds the run lock: every step of a round    *)
(* that has one of these effects is the `with self.lock:` block of a       *)
(* do_expand thread.                                                       *)
C23_AllUnderLock ==
    [][(/\ mainPc = "join_expand"
        /\ \/ crawler_recall_papers' # crawler_recall_papers
           \/ recall_papers' # recall_papers
           \/ papers_queue' # papers_queue
           \/ \E p \in DOMAIN child : child'[p] # child[p]
           \/ \E n \in DOMAIN nodes :
                 nodes'[n].expand = "success" /\ nodes[n].expand # "success")
          => \E e \in BagToSet(expanders) : DoExpandAttach(e)]_vars

(* C24: no search worker pops from an empty query list: in every           *)
(* interleaving each queries.pop() under the lock finds the list           *)
(* non-empty, so no search worker ends with an exception.                  *)
C24_NoEmptyPop ==
    \A w \in BagToSet(searchers) :
        /\ w.pc = "pop" /\ ~lock => queries # <<>>
        /\ w.pc # "crashed"

(* number of threads of a pool that hold the named lock *)
Holders(pool, name) ==
    BagCardinality([w \in {x \in BagToSet(pool) : name \in x.holds}
                       |-> CopiesIn(w, pool)])
(* a thread stands before a lock acquisition *)
WaitsForLock ==
    \/ \E w \in BagToSet(searchers) :
          w.pc \in {"pop", "attach"} \/ (w.pc = "ids" /\ w.ids # <<>>)
    \/ \E f \in BagToSet(fetchers) :
          (f.pc = "top" /\ new_expand # <<>>) \/ f.pc = "append"
    \/ \E e \in BagToSet(expanders) :
          (e.pc = "top" /\ have_full_paper # <<>>) \/ e.pc = "attach"
    \/ \E er \in RefThreads :
          (er[2].pc = "top" /\ er[1].ori # <<>>) \/ er[2].pc \in {"test", "prompt"}
AnyLockHeld == lock \/ \E e \in BagToSet(expanders) : e.rlock
(* C25: the run is deadlock-free: no thread holds two locks at once, a     *)
(* held lock has exactly one holder, which is inside its test-and-set,     *)
(* every acquisition is followed by a release (after the manual            *)
(* acquire/release of search_paper and after the `continue` of search_ref  *)
(* alike: a thread outside its test-and-set holds nothing), and no thread  *)
(* waits forever: eventually no lock is held and no thread stands before   *)
(* a lock, for good.                                                       *)
C25_DeadlockFree ==
    /\ [](/\ \A w \in BagToSet(searchers) :
               /\ w.holds \subseteq {"run"}
               /\ w.pc # "set" => w.holds = {}
          /\ \A er \in RefThreads :
               /\ er[2].holds \subseteq {"ref"}
               /\ er[2].pc # "set" => er[2].holds = {}
               /\ er[2].holds # {} => ~lock
          /\ Holders(searchers, "run") = (IF lock THEN 1 ELSE 0)
          /\ \A e \in BagToSet(expanders) :
               Holders(e.pool, "ref") = (IF e.rlock THEN 1 ELSE 0))
    /\ <>[](~AnyLockHeld /\ ~WaitsForLock)

C25_Witness ==
    /\ lock
    /\ \E w \in BagToSet(searchers) : w.pc = "attach"
    /\ \E w \in BagToSet(searchers) : w.pc = "set" /\ ~w.fresh

(* number of threads of a pool whose local state is in S *)
ThreadsIn(pool, S) == BagCardinality([w \in S |-> CopiesIn(w, pool)])
Occurrences(seq, x) == Cardinality({i \in DOMAIN seq : seq[i] = x})
IsSuffix(t, seq) ==
    Len(t) <= Len(seq) /\ t = SubSeq(seq, Len(seq) - Len(t) + 1, Len(seq))
(* the (section, citation) pairs do_expand thread e listed for its paper *)
ListedPairs(e) ==
    SectionSources(ExpandSections[answers[e.paper]], nodes[e.paper].sections.dict)
(* C26: within a round every work item is processed exactly once: a paper  *)
(* handed to the fetch pool is in the list, or in the hands of one fetch   *)
(* worker, or among the fetched papers, or in the hands of one do_expand   *)
(* worker, never in two of these places; a fetched paper is popped         *)
(* together with the answer to its own prompt; a (section, citation) pair  *)
(* is in the list or in the hands of one resolve worker; and when a pool   *)
(* has been joined its list is empty and every item has been processed.    *)
C26_ExactlyOnce ==
    [](rounds >= 1 =>
           /\ \A n \in Range(handed) :
                 LET inList    == Occurrences(new_expand, n)
                     inFetch   == ThreadsIn(fetchers, {f \in BagToSet(fetchers) : f.pc # "top" /\ f.paper = n})
                     inFetched == Occurrences(have_full_paper, n)
                     inExpand  == ThreadsIn(expanders, {e \in BagToSet(expanders) : e.pc # "top" /\ e.paper = n})
                 IN  /\ inList + inFetch + inFetched + inExpand <= 1
                     /\ nodes[n].expand = "" => inList + inFetch = 1
                     /\ (nodes[n].expand = "not expand" /\ n \notin DOMAIN answers)
                           => inFetch + inFetched = 1
                     /\ n \in DOMAIN answers => inList + inFetch + inFetched = 0
                     /\ mainPc \in {"expand", "done"} =>
                           /\ nodes[n].expand # ""
                           /\ nodes[n].expand # "get full paper error" => n \in DOMAIN answers
           /\ mainPc = "join_expand" =>
                 /\ new_expand = <<>>
                 /\ Len(crawl_results) = Len(have_full_paper)
                 /\ IsSuffix(have_full_paper, crawl_prompts)
           /\ mainPc \in {"expand", "done"} =>
                 new_expand = <<>> /\ have_full_paper = <<>> /\ crawl_results = <<>>
           /\ \A e \in BagToSet(expanders) :
                 /\ e.pc = "resolve" =>
                       LET listed == ListedPairs(e)
                           busy   == {r \in BagToSet(e.pool) : r.pc # "top"}
                       IN  /\ IsSuffix(e.ori, listed)
                           /\ \A pr \in Range(listed) :
                                 Occurrences(e.ori, pr)
                                   + ThreadsIn(e.pool, {r \in busy : <<r.section, r.title>> = pr})
                                   <= Occurrences(listed, pr)
                           /\ ThreadsIn(e.pool, busy) + Len(e.ori) + Len(e.sources)
                                 <= Len(listed)
                 /\ e.pc \in {"recall", "attach"} => e.ori = <<>> /\ e.pool = EmptyBag)

C26_Witness ==
    /\ mainPc = "join_expand"
    /\ Len(handed) >= 2
    /\ \E e \in BagToSet(expanders) :
          /\ e.pc = "resolve"
          /\ \E r1, r2 \in BagToSet(e.pool) :
                r1.pc # "top" /\ r2.pc # "top" /\ r1.title # r2.title
    /\ \E e \in BagToSet(expanders) : e.pc = "top" /\ have_full_paper # <<>>

(* number of keyword searches (calls of google_search_arxiv_id) issued for a query *)
Searches(q) == ThreadsIn(raw_results, {x \in BagToSet(raw_results) : x[1] = q})
(* C27: search() starts one search worker per planned query, and every     *)
(* planned query (every entry of the planned list, a payload planned twice *)
(* counting twice) is claimed by exactly one worker and processed exactly  *)
(* once: an entry is in the list, or claimed and in the hands of one       *)
(* worker, or its keyword search has been issued, once; a claimed query    *)
(* has its children list on the root, the one list with its label; and     *)
(* when search() returns no entry is left and one search per entry has     *)
(* been issued.                                                            *)
C27_OneWorkerPerQuery ==
    [](mainPc # "search" =>
           LET planned == ExpectedQueries
               labels  == Range(planned)
           IN  /\ BagCardinality(searchers) = Len(planned)
               /\ \A q \in labels :
                     /\ Occurrences(planned, q)
                           = Occurrences(queries, q)
                               + ThreadsIn(searchers, {w \in BagToSet(searchers) :
                                                         w.pc = "search" /\ w.query = q})
                               + Searches(q)
                     /\ Occurrences(queries, q) < Occurrences(planned, q)
                           => q \in DOMAIN child[0]
               /\ DOMAIN child[0] \subseteq labels
               /\ Range(queries) \subseteq labels
               /\ \A x \in BagToSet(raw_results) : x[1] \in labels
               /\ \A w \in BagToSet(searchers) :
                     w.pc \notin {"top", "pop", "crashed"} => w.query \in DOMAIN child[0]
               /\ SearchReturned =>
                     /\ queries = <<>>
                     /\ DOMAIN child[0] = labels
                     /\ \A q \in labels : Searches(q) = Occurrences(planned, q))

C27_Witness ==
    /\ SearchReturned
    /\ ExpectedQueries = <<Q1, Q2>>
    /\ Searches(Q1) = 1 /\ Searches(Q2) = 1
    /\ \E w \in BagToSet(searchers) : w.pc = "crashed"
    /\ Cardinality(ChildrenOf(0)) = 2

(* the external ids the keyword searches have returned so far *)
RawIds == UNION {{SplitV(x[2][i]) : i \in DOMAIN x[2]} : x \in BagToSet(raw_results)}
(* C28: in the search phase only the worker that wins the test-and-set on  *)
(* touch_ids for a raw result id fetches its metadata: per id at most one  *)
(* search worker has won, is fetching or has fetched, so at most one       *)
(* search_paper_by_arxiv_id call is issued per id by the search workers of *)
(* a run.                                                                  *)
C28_OneMetadataFetch ==
    [](/\ meta_found \cap meta_failed = {}
       /\ meta_found \cup meta_failed \subseteq RawIds \cap Range(touch_ids)
       /\ \A w \in BagToSet(searchers) : w.pc = "fetch" => w.arxiv_id \in RawIds
       /\ \A id \in RawIds :
             LET winning  == ThreadsIn(searchers, {w \in BagToSet(searchers) : w.pc = "set" /\ w.fresh /\ w.arxiv_id = id})
                 fetching == ThreadsIn(searchers, {w \in BagToSet(searchers) : w.pc = "fetch" /\ w.arxiv_id = id})
                 fetched  == IF id \in meta_found \cup meta_failed THEN 1 ELSE 0
             IN  /\ winning + fetching + fetched <= 1
                 /\ fetching + fetched = 1 => id \in Range(touch_ids)
                 /\ ~SearchReturned => Occurrences(touch_ids, id) <= 1
                 /\ (SearchReturned /\ AllTerminated(searchers, queries)) => fetched = 1)

C28_Witness ==
    /\ "a" \in InBothRaw
    /\ \E w \in BagToSet(searchers) : w.pc = "fetch" /\ w.arxiv_id = "a"
    /\ \E w \in BagToSet(searchers) : w.pc = "set" /\ w.arxiv_id = "a" /\ ~w.fresh

(* the skeleton fetch of node n was issued and gave None or no sections *)
FetchFailed(n) ==
    /\ CopiesIn(n, section_fetches) >= 1
    /\ nodes[n].sections.kind # "dict" \/ DOMAIN nodes[n].sections.dict = {}
(* C29: when the section-skeleton fetch of a frontier paper fails or gives *)
(* no sections, the paper's expand status is "get full paper error", no    *)
(* selection prompt is built for it, it is not handed to do_expand and     *)
(* gets no children, and every other paper handed over in the round is     *)
(* still processed: it has its prompt when the fetch pool is joined and    *)
(* its answer has been popped when the round is over.                      *)
C29_FetchFailureSkipsPaper ==
    [](/\ \A n \in NodeIds :
             FetchFailed(n) =>
                 /\ nodes[n].expand = "get full paper error"
                 /\ n \notin Range(crawl_prompts) \cup Range(have_full_paper)
                 /\ n \notin DOMAIN answers
                 /\ n \notin title_searches
                 /\ DOMAIN child[n] = {}
                 /\ ThreadsIn(fetchers, {f \in BagToSet(fetchers) : f.pc # "top" /\ f.paper = n}) = 0
                 /\ ThreadsIn(expanders, {e \in BagToSet(expanders) : e.pc # "top" /\ e.paper = n}) = 0
       /\ (rounds >= 1 /\ mainPc = "join_expand") =>
             \A m \in Range(handed) : FetchFailed(m) \/ m \in Range(crawl_prompts)
       /\ (rounds >= 1 /\ mainPc \in {"expand", "done"}) =>
             \A m \in Range(handed) : FetchFailed(m) \/ m \in DOMAIN answers)

C29_Witness ==
    /\ mainPc \in {"expand", "done"}
    /\ \E n, m \in Range(handed) :
          /\ FetchFailed(n)
          /\ nodes[n].expand = "get full paper error"
          /\ nodes[m].expand = "success"
          /\ CopiesIn(m, section_fetches) = 0

(* the step of resolve thread r of do_expand thread e whose title search   *)
(* returned None: the thread is back at the top of its loop                *)
SkipsPair(e, r) ==
    /\ r.pc = "title"
    /\ expanders' = Replace(expanders, e, [e EXCEPT !.pool = Replace(e.pool, r, RefWorker0)])
(* C30: when the title search for a (section, citation) pair fails, only   *)
(* that pair is skipped: the step claims no id, creates no node and leaves *)
(* the lists of the run as they are; a failed result never reaches the     *)
(* test-and-set, the candidate list, touch_ids or a node; and no resolve   *)
(* thread stops, so the remaining pairs of the paper are still popped and  *)
(* the pair list is empty when the pool is joined.                         *)
C30_FailedTitleSkipsPair ==
    /\ [](/\ \A er \in RefThreads :
               /\ er[2].pc \in {"top", "title", "test", "set", "prompt"}
               /\ er[2].pc \in {"test", "set", "prompt"} =>
                     /\ er[2].paper # NoPaper
                     /\ er[2].paper \in TitleResults(er[2].title)
          /\ \A e \in BagToSet(expanders) :
               /\ \A i \in DOMAIN e.sources : e.sources[i][2] # NoPaper
               /\ e.pc \in {"recall", "attach"} => e.ori = <<>>
          /\ "None" \notin Range(touch_ids)
          /\ \A n \in NodeIds : nodes[n].arxiv_id # "None")
    /\ [][\A er \in RefThreads :
             SkipsPair(er[1], er[2]) =>
                 /\ UNCHANGED <<touch_ids, claimed_for, nodes, child, papers_queue,
                                crawler_recall_papers, recall_papers>>
                 /\ \A e2 \in BagToSet(expanders') \ BagToSet(expanders) :
                       /\ e2.ori = er[1].ori
                       /\ e2.sources = er[1].sources
                       /\ e2.prompts = er[1].prompts]_vars

C30_Witness ==
    /\ mainPc \in {"expand", "done"}
    /\ "c" \notin Range(touch_ids)
    /\ \E n \in title_searches :
          /\ nodes[n].arxiv_id = "a"
          /\ nodes[n].expand = "success"
          /\ \E k \in ChildrenOf(n) : nodes[k].arxiv_id = "d"

(* the papers some expand() has handed to the fetch pool: the nodes before *)
(* the cursor that no budget dropped                                       *)
EverHanded ==
    {papers_queue[i] : i \in 1..Min({expand_start, Len(papers_queue)})} \ DOMAIN dropped
(* C31: when an expansion round is over every paper that entered it has    *)
(* exactly one expand status: "get full paper error" iff its skeleton      *)
(* fetch failed, "success" iff a child was attached to it in this round,   *)
(* "not expand" otherwise; and a paper that no round handed to the fetch   *)
(* pool has no expand status.                                              *)
C31_ExpandStatus ==
    [](/\ (rounds >= 1 /\ mainPc \in {"expand", "done"}) =>
             \A n \in Range(handed) :
                 LET status   == nodes[n].expand
                     attached == ChildrenOf(n) \cap CreatedInRound(rounds - 1) # {}
                 IN  /\ status \in {"get full paper error", "success", "not expand"}
                     /\ status = "get full paper error" <=> FetchFailed(n)
                     /\ status = "success" <=> attached
                     /\ status = "not expand" <=> (~FetchFailed(n) /\ ~attached)
       /\ Range(handed) \subseteq (IF rounds >= 1 THEN EverHanded ELSE {})
       /\ \A n \in NodeIds :
             (rounds = 0 \/ n \notin EverHanded) => nodes[n].expand = "")

C31_Witness ==
    /\ mainPc \in {"expand", "done"}
    /\ rounds >= 2
    /\ \E n, m, k \in EverHanded :
          /\ nodes[n].expand = "success"
          /\ nodes[m].expand = "not expand"
          /\ nodes[k].expand = "get full paper error"
          /\ k \in Range(handed)
    /\ \E n \in DOMAIN dropped : nodes[n].expand = ""

(* the text has a directive Expand]...[ whose trimmed payload is s *)
NamedByExpand(text, s) ==
    \E i, j \in DOMAIN text :
        /\ i < j
        /\ text[i] = "Expand]"
        /\ text[j] = "["
        /\ \A k \in (i + 1)..(j - 1) : text[k] # "["
        /\ Trimmed(SubSeq(text, i + 1, j - 1)) = s
(* the ids the title search can resolve a citation string to *)
ResolvesTo(title) == {SplitV(tid) : tid \in TitleIds(title) \ {"None"}}
(* C32: every node created in an expansion round is attached as a child of *)
(* exactly the paper whose skeleton supplied its citation string, under a  *)
(* label that is a section name of that paper's skeleton and was named by  *)
(* an Expand]...[ directive in the answer to that paper's own prompt (the  *)
(* answer popped with the paper is the answer to its prompt); a section    *)
(* name that is not in the skeleton contributes nothing: no pair, no       *)
(* candidate and no children list carries it.                              *)
C32_AttachedUnderOwnSection ==
    [](/\ \A n \in NodeIds :
             nodes[n].source = "Expand" =>
                 /\ Cardinality(Places(n)) =
                       (IF \E e \in BagToSet(expanders) : e.pc = "attach" /\ e.node = n
                        THEN 0 ELSE 1)
                 /\ \A pl \in Places(n) :
                       LET p == pl[1]
                           s == pl[2]
                       IN  /\ p \in NodeIds
                           /\ nodes[n].depth = nodes[p].depth + 1
                           /\ s \in DOMAIN nodes[p].sections.dict
                           /\ \E i \in DOMAIN nodes[p].sections.dict[s] :
                                 nodes[n].arxiv_id
                                     \in ResolvesTo(nodes[p].sections.dict[s][i])
                           /\ p \in DOMAIN replies
                           /\ NamedByExpand(replies[p], s)
       /\ \A p \in DOMAIN answers : p \in DOMAIN replies /\ answers[p] = replies[p]
       /\ \A p \in NodeIds : DOMAIN child[p] \subseteq DOMAIN nodes[p].sections.dict
       /\ \A e \in BagToSet(expanders) :
             e.pc # "top" =>
                 LET dict == nodes[e.paper].sections.dict
                 IN  /\ \A i \in DOMAIN e.ori :
                           /\ e.ori[i][1] \in DOMAIN dict
                           /\ e.ori[i][2] \in Range(dict[e.ori[i][1]])
                           /\ NamedByExpand(replies[e.paper], e.ori[i][1])
                     /\ \A i \in DOMAIN e.sources :
                           /\ e.sources[i][1] \in DOMAIN dict
                           /\ NamedByExpand(replies[e.paper], e.sources[i][1]))

C32_Witness ==
    /\ mainPc = "done"
    /\ \E p, q \in DOMAIN replies :
          /\ p # q
          /\ nodes[p].depth = 0 /\ nodes[q].depth = 0
          /\ replies[p] # replies[q]
          /\ NamedByExpand(replies[p], <<"zz">>)
          /\ \E n \in ChildrenOf(p) : nodes[n].arxiv_id = "c"
          /\ ChildrenOf(q) = {}

(* the prompt named by this title is built from this candidate paper *)
PromptOf(title, paper) == paper # NoPaper /\ paper.arxiv_id \in ResolvesTo(title)
(* C33: each new node's score is the scorer's output for the prompt built  *)
(* from that same candidate: under every interleaving of the resolve       *)
(* workers the i-th scoring prompt and the i-th (section, paper) entry     *)
(* collected for an owning paper belong to the same resolved candidate     *)
(* and the i-th score is the output for the i-th prompt; in the search     *)
(* phase the i-th score is the output for the prompt of the i-th fetched   *)
(* paper; so every node carries a score the scorer gives for its prompt.   *)
C33_ScoreOfSameCandidate ==
    [](/\ \A e \in BagToSet(expanders) :
             /\ Len(e.prompts) = Len(e.sources)
             /\ \A i \in DOMAIN e.sources :
                   /\ PromptOf(e.prompts[i], e.sources[i][2])
                   /\ <<e.sources[i][1], e.prompts[i]>> \in Range(ListedPairs(e))
             /\ e.pc \in {"recall", "attach"} =>
                   /\ Len(e.scores) = Len(e.prompts)
                   /\ \A i \in DOMAIN e.scores : e.scores[i] \in Scores(e.prompts[i])
             /\ e.pc = "attach" =>
                   /\ nodes[e.node].select_score = Head(e.scores)
                   /\ nodes[e.node].arxiv_id = Head(e.sources)[2].arxiv_id
                   /\ nodes[e.node].title = Head(e.sources)[2].title
       /\ \A w \in BagToSet(searchers) :
             w.pc = "attach" =>
                 /\ Len(w.scores) = Len(w.papers)
                 /\ \A i \in DOMAIN w.scores : w.scores[i] \in Scores(w.papers[i].title)
       /\ \A n \in NodeIds :
             IF nodes[n].source = "Search"
             THEN nodes[n].select_score \in Scores(nodes[n].title)
             ELSE \E pl \in Places(n) \cup {<<e.paper, Head(e.sources)[1], 0>> :
                                               e \in {x \in BagToSet(expanders) :
                                                          x.pc = "attach" /\ x.node = n}} :
                     \E t \in Range(nodes[pl[1]].sections.dict[pl[2]]) :
                         /\ nodes[n].arxiv_id \in ResolvesTo(t)
                         /\ nodes[n].select_score \in Scores(t))

C33_Witness ==
    \E e \in BagToSet(expanders) :
        /\ e.pc = "attach"
        /\ Len(e.sources) = 2
        /\ e.sources[1][2].arxiv_id = "d"
        /\ e.sources[2][2].arxiv_id = "c"
        /\ e.scores = <<5, 7>>
        /\ nodes[e.node].select_score = 5

(* the search_ref threads that have been started and have not returned, *)
(* over the pools of all do_expand threads                              *)
AliveRefWorkers ==
    BagCardinality([er \in LiveRefThreads |->
                       CopiesIn(er[1], expanders) * CopiesIn(er[2], er[1].pool)])
(* C34: the expansion sub-phases use fixed pool sizes: at any moment of a  *)
(* round at most threads_num fetch workers and at most threads_num         *)
(* do_expand workers are alive, and at most 3 * threads_num resolve        *)
(* workers (search_ref threads) are alive.                                 *)
C34_FixedPoolSizes ==
    /\ ThreadsIn(fetchers, {f \in BagToSet(fetchers) : ~Terminated(f, new_expand)})
          <= threads_num
    /\ ThreadsIn(expanders, {e \in BagToSet(expanders) : ~Terminated(e, have_full_paper)})
          <= threads_num
    /\ AliveRefWorkers <= threads_num * ResolvePoolFactor

(* C35: the graph has bounded depth: every node's depth lies between the   *)
(* root's -1 and expand_layers; only the root has depth -1; the nodes      *)
(* search creates have depth 0 and the nodes expansion round d creates     *)
(* have depth d + 1, one more than their parent; and a node of depth       *)
(* expand_layers is never handed to the fetch pool, fetched or expanded.   *)
C35_BoundedDepth ==
    /\ [](/\ depth <= expand_layers /\ rounds <= expand_layers
          /\ \A n \in NodeIds :
                /\ nodes[n].depth \in (RootDepth + 1)..expand_layers
                /\ nodes[n].source = "Search" <=> nodes[n].depth = 0
                /\ \A k \in ChildrenOf(n) : nodes[k].depth = nodes[n].depth + 1
                /\ nodes[n].depth = expand_layers =>
                      /\ n \notin Range(handed) \cup Range(new_expand)
                                   \cup Range(crawl_prompts) \cup Range(have_full_paper)
                      /\ n \notin EverHanded \/ rounds = 0
                      /\ ~InHands(n)
                      /\ CopiesIn(n, section_fetches) = 0
                      /\ n \notin (DOMAIN replies) \cup title_searches
                      /\ nodes[n].expand = ""
                      /\ DOMAIN child[n] = {}
          /\ \A k \in ChildrenOf(0) : nodes[k].depth = RootDepth + 1)
    /\ [][\A n \in (DOMAIN nodes') \ (DOMAIN nodes) :
             IF mainPc = "join_search"
             THEN nodes'[n].depth = 0
             ELSE /\ mainPc = "join_expand"
                  /\ rounds = depth + 1
                  /\ nodes'[n].depth = depth + 1]_vars

C35_Witness ==
    /\ mainPc = "done"
    /\ rounds = expand_layers
    /\ \E n \in NodeIds :
          /\ nodes[n].depth = expand_layers
          /\ n \in Range(papers_queue)
          /\ \E p \in NodeIds :
                n \in ChildrenOf(p) /\ nodes[p].depth = expand_layers - 1

(* C36: expand()'s rewrite of papers_queue leaves the already scheduled    *)
(* prefix papers_queue[:expand_start] as it is and only permutes the       *)
(* pending suffix: the list keeps its length and its nodes, none dropped   *)
(* and none duplicated, and the nodes themselves are not touched.          *)
C36_RewriteKeepsNodes ==
    [][rounds' = rounds + 1 =>
          /\ Len(papers_queue') = Len(papers_queue)
          /\ \A i \in 1..expand_start : papers_queue'[i] = papers_queue[i]
          /\ \A n \in NodeIds :
                Occurrences(papers_queue', n) = Occurrences(papers_queue, n)
          /\ Range(papers_queue') \subseteq NodeIds
          /\ nodes' = nodes /\ child' = child]_vars

C36_Witness ==
    /\ mainPc = "join_fetch"
    /\ rounds = 2
    /\ new_expand = handed
    /\ \A f \in BagToSet(fetchers) : f.pc = "top"
    /\ expand_start = Len(papers_queue)
    /\ Len(frontier) = 2
    /\ Len(papers_queue) > Len(frontier)
    /\ frontier # SubSeq(papers_queue, Len(papers_queue) - 1, Len(papers_queue))

(* the attempts of the call that get a 200 response that parses *)
GoodAttempts == {i \in DOMAIN responses : responses[i].status = 200 /\ responses[i].parses}
(* C37: google_search_arxiv_id makes at most 3 requests per call, one per  *)
(* attempt: it returns the ids (each once) of the first attempt that gets  *)
(* a 200 response and parses, right after that request; it tries again     *)
(* after an exception or a non-200 response; and after 3 unsuccessful      *)
(* attempts it returns an empty list: once requests are made the call      *)
(* never ends by raising.                                                  *)
C37_ThreeAttempts ==
    [](/\ requests <= MaxAttempts
       /\ requests = attempt
       /\ google_pc = "loop" =>
             \A i \in 1..requests : i \notin GoodAttempts
       /\ google_pc = "returned" =>
             IF GoodAttempts = {}
             THEN requests = MaxAttempts /\ returned = <<>>
             ELSE LET first == Min(GoodAttempts)
                      links == responses[first].organic
                  IN  /\ requests = first
                      /\ \A id \in {"a", "b", "x"} :
                            Occurrences(returned, id) =
                                (IF \E k \in DOMAIN links :
                                       links[k][2] = id /\ links[k][1] # "other"
                                 THEN 1 ELSE 0)
                      /\ Range(returned) \subseteq {"a", "b", "x"}
       /\ google_pc = "raised" => requests = 0 /\ google_key = PlaceholderKey)

C37_Witness ==
    /\ google_pc = "returned"
    /\ requests = MaxAttempts
    /\ responses[1].status = 0
    /\ responses[2].status = 500
    /\ responses[3].status = 200 /\ responses[3].parses
    /\ returned = <<"a">>
====
